---- MODULE Spec2Model ----
(***************************************************************************)
(* The Strava client (src/strava/client.py), its aggregation utilities     *)
(* (src/strava/util.py) and the weekly script's entry call                 *)
(* (src/scripts/weekly.py) as a state machine.                             *)
(*                                                                         *)
(* Representation of the Python values:                                    *)
(*   - a datetime is the integer instant it denotes; the query parameters  *)
(*     "after"/"before" carry that instant (begin.timestamp());            *)
(*   - a float number of seconds (DistributionBucket.time, elapsed_time)   *)
(*     is its value in milliseconds; a timedelta is the record             *)
(*     [days, seconds, microseconds] that datetime.timedelta normalises to;*)
(*   - a float BPM (DistributionBucket.min/max) is its value in half BPM,  *)
(*     so that int() has something to truncate;                            *)
(*   - a float result x / d of the utilities is the exact fraction         *)
(*     [num |-> x, den |-> d] (floating point rounding is not modelled);   *)
(*   - Activity.name is not modelled (nothing reads it).                   *)
(***************************************************************************)
EXTENDS Integers, Sequences, FiniteSets, TLC

(***************************************************************************)
(* Bounds of the model.                                                    *)
(***************************************************************************)
\* activities the upstream delivers to one fetch, at most
MaxActs == 3
\* per_page ranges over 1..MaxPerPage
MaxPerPage == 2
\* buckets in one zone-distribution block, at most
MaxBuckets == 2
\* activities in one list handed to the utilities, at most
MaxUtilActs == 2

\* start instants of upstream activities
StartTimes == {1, 2}
\* instants a caller passes as begin / end, and readings of datetime.now()
Instants == {100, 101}

None == "None"

(***************************************************************************)
(* datetime.timedelta                                                      *)
(***************************************************************************)
MsPerSecond == 1000
SecondsPerDay == 24 * 60 * 60
\* timedelta(days=7)
Week == 7 * SecondsPerDay

\* timedelta(seconds=x) for a non-negative x given in milliseconds
TimeDelta(ms) ==
    [days         |-> (ms \div MsPerSecond) \div SecondsPerDay,
     seconds      |-> (ms \div MsPerSecond) % SecondsPerDay,
     microseconds |-> (ms % MsPerSecond) * 1000]

\* int(x) of a float given in half units: truncation toward zero
IntOfHalves(h) == IF h >= 0 THEN h \div 2 ELSE -((-h) \div 2)

(***************************************************************************)
(* ActivityType                                                            *)
(***************************************************************************)
\* the "type" strings the upstream sends
TypeStrings == {"RUN", "Workout", "cycling"}

\* str.lower()
Lower(string) ==
    CASE string = "RUN"     -> "run"
      [] string = "Run"     -> "run"
      [] string = "Workout" -> "workout"
      [] string = "WORKOUT" -> "workout"
      [] OTHER              -> string

\* whether ActivityType.parse raises ValueError
\* (the comparison without lower())
ParseTypeFailsCase(string) == string \notin {"run", "workout"}
ParseTypeFails(string) == Lower(string) \notin {"run", "workout"}

\* ActivityType.parse where it does not raise
ActivityTypeParse(string) ==
    CASE Lower(string) = "run"     -> "run"
      [] Lower(string) = "workout" -> "workout"
      [] OTHER                     -> "run"

(***************************************************************************)
(* Activity                                                                *)
(***************************************************************************)
\* the elapsed_time values (whole seconds) the upstream sends
ElapsedTimes == {3600}

\* a raw element of a listing response
RawActivity(id, type, start, elapsed, hr) ==
    [id |-> id, type |-> type, start_date_local |-> start,
     elapsed_time |-> elapsed, has_heartrate |-> hr]

\* Activity.parse where the type parses
ActivityParse(data) ==
    [id             |-> data.id,
     type           |-> ActivityTypeParse(data.type),
     start_datetime |-> data.start_date_local,
     duration       |-> TimeDelta(data.elapsed_time * MsPerSecond),
     has_heartrate  |-> data.has_heartrate,
     heartrate_data |-> <<>>]

\* whether parsing a listing response raises: some element's type is unknown
PageParseFails(response) ==
    \E i \in 1..Len(response) : ParseTypeFails(response[i].type)

\* [Activity.parse(element) for element in response]
ParsePage(response) == [i \in 1..Len(response) |-> ActivityParse(response[i])]

(***************************************************************************)
(* sorted(): Python's sort is stable; insertion after the last element     *)
(* whose key is not greater gives the same order.                          *)
(***************************************************************************)
\* (insertion before the equals: a sort that is not stable)
InsertByStartFirst(x, s) ==
    LET n == Cardinality({i \in 1..Len(s) : s[i].start_datetime < x.start_datetime})
    IN  SubSeq(s, 1, n) \o <<x>> \o SubSeq(s, n + 1, Len(s))
\* x inserted into the list s sorted by start_datetime, after its equals
InsertByStart(x, s) ==
    LET n == Cardinality({i \in 1..Len(s) : s[i].start_datetime <= x.start_datetime})
    IN  SubSeq(s, 1, n) \o <<x>> \o SubSeq(s, n + 1, Len(s))

RECURSIVE SortFrom(_, _)
SortFrom(done, rest) ==
    IF rest = <<>> THEN done
    ELSE SortFrom(InsertByStart(Head(rest), done), Tail(rest))

\* sorted(activities, key=lambda a: a.start_datetime)
SortedByStart(activities) == SortFrom(<<>>, activities)

\* x inserted into the list s sorted by min, after its equals
InsertByMin(x, s) ==
    LET n == Cardinality({i \in 1..Len(s) : s[i].min <= x.min})
    IN  SubSeq(s, 1, n) \o <<x>> \o SubSeq(s, n + 1, Len(s))

RECURSIVE SortMinFrom(_, _)
SortMinFrom(done, rest) ==
    IF rest = <<>> THEN done
    ELSE SortMinFrom(InsertByMin(Head(rest), done), Tail(rest))

\* sorted(raw, key=lambda h: h.min)
SortedByMin(raw) == SortMinFrom(<<>>, raw)

(***************************************************************************)
(* Heartrate zones                                                         *)
(***************************************************************************)
\* the buckets the upstream sends: min and max in half BPM, time in
\* milliseconds.  -2 is the upstream's max of -1 ("above the last threshold").
Buckets ==
    { [min |-> 0,   max |-> 240, time |-> 600000],
      [min |-> 240, max |-> 300, time |-> 300000],
      [min |-> 241, max |-> 300, time |-> 30500],
      [min |-> 300, max |-> -2,  time |-> 86460000] }

\* the lists of buckets of one block
BucketLists(n) == UNION { [1..k -> Buckets] : k \in 0..n }

\* a well-formed element of a zones response
ZoneData(type, buckets) ==
    [type |-> type, distribution_buckets |-> buckets, wellformed |-> TRUE]
\* an element ZoneData.model_validate rejects
Malformed == [type |-> "?", distribution_buckets |-> <<>>, wellformed |-> FALSE]

\* f"z{i + 1}", i the position enumerate() counts from 0
ZoneId(i) == "z" \o ToString(i + 1)

\* Heartrate(min=int(item.min), max=int(item.max), time=timedelta(seconds=item.time))
Heartrate(item) ==
    [id |-> "", min |-> IntOfHalves(item.min), max |-> IntOfHalves(item.max),
     time |-> TimeDelta(item.time)]

\* (the conversion without the sort)
ConvertUnsorted(buckets) ==
    LET raw == [i \in 1..Len(buckets) |-> Heartrate(buckets[i])]
    IN  [i \in 1..Len(raw) |-> [raw[i] EXCEPT !.id = ZoneId(i - 1)]]
\* the "heartrate" case: convert, sort by min, then number the sorted list
ConvertZones(buckets) ==
    LET raw    == [i \in 1..Len(buckets) |-> Heartrate(buckets[i])]
        sorted == SortedByMin(raw)
    IN  [i \in 1..Len(sorted) |-> [sorted[i] EXCEPT !.id = ZoneId(i - 1)]]

\* the loop over the parsed blocks: each "heartrate" block replaces
\* activity.heartrate_data, every other block is skipped
RECURSIVE ApplyZones(_, _)
ApplyZones(data, parsed) ==
    IF parsed = <<>> THEN data
    ELSE ApplyZones(IF Head(parsed).type = "heartrate"
                        THEN ConvertZones(Head(parsed).distribution_buckets)
                        ELSE data,
                    Tail(parsed))

\* whether [ZoneData.model_validate(item) for item in response] raises
ZonesParseFails(response) == \E i \in 1..Len(response) : ~response[i].wellformed

\* the activity as _enrich_activity_with_heartrate leaves it
Enriched(activity, response) ==
    [activity EXCEPT !.heartrate_data = ApplyZones(@, response)]

(***************************************************************************)
(* Inputs                                                                  *)
(***************************************************************************)
\* the upstream's ids are unique: a record's id is its ordinal in the fetch
\* the listing responses of at most n elements, the first delivered as id
RawPages(id, n) ==
    UNION { { [i \in 1..k |-> RawActivity(id + i - 1, f[i][1], f[i][2], f[i][3], f[i][4])] :
                f \in [1..k -> TypeStrings \X StartTimes \X ElapsedTimes \X BOOLEAN] } :
            k \in 0..n }

\* the elements of a zones response handed to a direct call of the enricher
ZoneItems ==
    { ZoneData("heartrate", b) : b \in BucketLists(MaxBuckets) }
        \cup { ZoneData("power", b) : b \in BucketLists(1) }
        \cup { Malformed }

\* the zones responses handed to a direct call of the enricher
ZoneResponses ==
    {<<>>} \cup { <<x>> : x \in ZoneItems } \cup { <<x, y>> : x, y \in ZoneItems }

\* the zones responses the upstream gives during a fetch
FetchZoneResponses ==
    { <<>>,
      << ZoneData("power", <<>>),
         ZoneData("heartrate", << [min |-> 240, max |-> 300, time |-> 300000],
                                  [min |-> 0,   max |-> 240, time |-> 600000] >>) >>,
      << Malformed >> }

(***************************************************************************)
(* State                                                                   *)
(***************************************************************************)
VARIABLES
    pc,          \* "idle", "listing" (in the while loop), "enriching" (in the
                 \* list comprehension), "done" (returned), "raised"
    op,          \* the operation the caller invoked
    call,        \* its arguments: begin, end, per_page, enrich_heartrate
    page,        \* activities(): page
    activities,  \* activities(): activities; the argument of a utility
    idx,         \* the position the list comprehension is at
    requests,    \* the requests sent so far, in order
    responses,   \* the responses received so far: responses[i] answers requests[i]
    result,      \* the value returned
    error,       \* the exception raised
    store        \* the activities a paging upstream holds in the range

vars == <<pc, op, call, page, activities, idx, requests, responses, result,
          error, store>>

NoCall == [begin |-> 0, end |-> 0, per_page |-> 0, enrich_heartrate |-> FALSE]

Start ==
    /\ pc = "idle"
    /\ op = None
    /\ call = NoCall
    /\ page = 0
    /\ activities = <<>>
    /\ idx = 0
    /\ requests = <<>>
    /\ responses = <<>>
    /\ result = None
    /\ error = None

Init == Start /\ store = <<>>

(***************************************************************************)
(* Strava.activities, Strava.last_week, and the script's week_beginning    *)
(***************************************************************************)
\* the GET of _fetch_activites_page
ListRequest(c, p) ==
    [kind |-> "activities", page |-> p, per_page |-> c.per_page,
     after |-> c.begin, before |-> c.end]

\* the GET of _enrich_activity_with_heartrate
ZonesRequest(id) == [kind |-> "zones", id |-> id]

\* activities() up to the first request
Enter(name, begin, end, per_page, enrich_heartrate) ==
    /\ pc = "idle"
    /\ pc' = "listing"
    /\ op' = name
    /\ call' = [begin |-> begin, end |-> end, per_page |-> per_page,
                enrich_heartrate |-> enrich_heartrate]
    /\ page' = 1
    /\ activities' = <<>>
    /\ UNCHANGED <<idx, requests, responses, result, error, store>>

Activities(begin, end, per_page, enrich_heartrate) ==
    Enter("activities", begin, end, per_page, enrich_heartrate)

\* last_week: end is the first reading of the clock, beg the second less a week
LastWeek(now1, now2, per_page, enrich_heartrate) ==
    /\ now1 <= now2
    /\ Enter("last_week", now2 - Week, now1, per_page, enrich_heartrate)

\* client.week_beginning(begin) in main(): class Strava defines no such
\* method, so the attribute lookup raises
WeekBeginning(begin) ==
    /\ pc = "idle"
    /\ pc' = "raised"
    /\ op' = "week_beginning"
    /\ call' = [NoCall EXCEPT !.begin = begin]
    /\ error' = "AttributeError"
    /\ UNCHANGED <<page, activities, idx, requests, responses, result, store>>

\* (the comprehension without its test of the flag)
NextAny(acts, from) == IF from <= Len(acts) THEN from ELSE 0
\* the first position from `from` on that the comprehension enriches (0: none)
NextHr(acts, from) ==
    LET S == {i \in from..Len(acts) : acts[i].has_heartrate}
    IN  IF S = {} THEN 0 ELSE CHOOSE i \in S : \A j \in S : i <= j

\* the rest of activities() once the positions before `from` are through the
\* comprehension: on to the next activity to enrich, or sort and return
Continue(acts, from) ==
    LET n == IF call.enrich_heartrate THEN NextHr(acts, from) ELSE 0
    IN  IF n # 0
        THEN /\ pc' = "enriching"
             /\ idx' = n
             /\ activities' = acts
             /\ UNCHANGED result
        ELSE /\ pc' = "done"
             /\ result' = SortedByStart(acts)
             /\ activities' = acts
             /\ UNCHANGED idx

\* (the test for an empty page, and the test with <=)
LastPageOnEmpty(n, per_page) == n = 0
LastPageLax(n, per_page) == n <= per_page
\* whether the loop leaves after a page of n elements
LastPage(n, per_page) == n < per_page

\* one turn of the while loop: request, parse, extend, test, page += 1
FetchPage(response) ==
    /\ pc = "listing"
    /\ requests' = Append(requests, ListRequest(call, page))
    /\ responses' = Append(responses, response)
    /\ IF PageParseFails(response)
       THEN /\ pc' = "raised"
            /\ error' = "ValueError"
            /\ UNCHANGED <<page, activities, idx, result>>
       ELSE LET acts == activities \o ParsePage(response)
            IN  IF LastPage(Len(response), call.per_page)
                THEN Continue(acts, 1) /\ UNCHANGED <<page, error>>
                ELSE /\ page' = page + 1
                     /\ activities' = acts
                     /\ UNCHANGED <<pc, idx, result, error>>
    /\ UNCHANGED <<op, call, store>>

\* the upstream answers as it likes, within the bound on what it delivers
ListAny ==
    /\ pc = "listing"
    /\ \E response \in RawPages(Len(activities) + 1,
                                  IF call.per_page < MaxActs - Len(activities)
                                      THEN call.per_page
                                      ELSE MaxActs - Len(activities)) :
            FetchPage(response)

\* one element of the comprehension that has the flag: the enricher's request,
\* validation and conversion, then on to the next
EnrichStep(response) ==
    /\ pc = "enriching"
    /\ LET a == activities[idx]
       IN  IF ~a.has_heartrate
           THEN /\ pc' = "raised"
                /\ error' = "ValueError"
                /\ UNCHANGED <<activities, idx, requests, responses, result>>
           ELSE /\ requests' = Append(requests, ZonesRequest(a.id))
                /\ responses' = Append(responses, response)
                /\ IF ZonesParseFails(response)
                   THEN /\ pc' = "raised"
                        /\ error' = "ValidationError"
                        /\ UNCHANGED <<activities, idx, result>>
                   ELSE /\ Continue([activities EXCEPT ![idx] = Enriched(a, response)],
                                    idx + 1)
                        /\ UNCHANGED error
    /\ UNCHANGED <<op, call, page, store>>

EnrichAny == pc = "enriching" /\ \E response \in FetchZoneResponses : EnrichStep(response)

(***************************************************************************)
(* Strava._enrich_activity_with_heartrate called directly                  *)
(***************************************************************************)
\* the activities handed to a direct call
EnrichArguments ==
    { ActivityParse(RawActivity(1, "RUN", 1, 3600, h)) : h \in BOOLEAN }

EnrichActivity(activity, response) ==
    /\ pc = "idle"
    /\ op' = "enrich"
    /\ activities' = <<activity>>
    /\ IF ~activity.has_heartrate
       THEN /\ pc' = "raised"
            /\ error' = "ValueError"
            /\ UNCHANGED <<requests, responses, result>>
       ELSE /\ requests' = Append(requests, ZonesRequest(activity.id))
            /\ responses' = Append(responses, response)
            /\ IF ZonesParseFails(response)
               THEN /\ pc' = "raised"
                    /\ error' = "ValidationError"
                    /\ UNCHANGED result
               ELSE /\ pc' = "done"
                    /\ result' = Enriched(activity, response)
                    /\ UNCHANGED error
    /\ UNCHANGED <<call, page, idx, store>>

EnrichDirect ==
    /\ pc = "idle"
    /\ \E activity \in EnrichArguments, response \in ZoneResponses :
            EnrichActivity(activity, response)

(***************************************************************************)
(* util.aggregate_hr and util.total_duration                               *)
(***************************************************************************)
\* the elapsed times (whole seconds) of the activities handed to total_duration
UtilElapsed == {0, 59, 3600, 90000}

\* the buckets behind the zones of the activities handed to aggregate_hr
UtilBuckets ==
    { [min |-> 0,   max |-> 240, time |-> 600000],
      [min |-> 240, max |-> 300, time |-> 30500],
      [min |-> 300, max |-> -2,  time |-> 86460000] }

\* the lists of at most n elements of S
ListsOf(S, n) == UNION { [1..k -> S] : k \in 0..n }

\* activities as the fetch returns them, differing in duration
TimedActivities ==
    { ActivityParse(RawActivity(1, "RUN", 1, e, FALSE)) : e \in UtilElapsed }

\* activities as the fetch returns them, differing in their zones
ZonedActivities ==
    { Enriched(ActivityParse(RawActivity(1, "RUN", 1, 3600, TRUE)),
               << ZoneData("heartrate", b) >>) : b \in ListsOf(UtilBuckets, MaxBuckets) }

\* [hr for a in activities for hr in a.heartrate_data]
RECURSIVE Flatten(_)
Flatten(acts) ==
    IF acts = <<>> THEN <<>> ELSE Head(acts).heartrate_data \o Flatten(Tail(acts))

\* hr.time.seconds / 60: timedelta.seconds is the seconds field, 0..86399
\* (its variant on the seconds of the last minute alone)
ContributionRemainder(hr) == [num |-> hr.time.seconds % 60, den |-> 60]
Contribution(hr) == [num |-> hr.time.seconds, den |-> 60]

\* for hr in data: agg[hr.id] += hr.time.seconds / 60
RECURSIVE Accumulate(_, _)
Accumulate(agg, data) ==
    IF data = <<>> THEN agg
    ELSE Accumulate([agg EXCEPT ![Head(data).id].num = @ + Contribution(Head(data)).num],
                    Tail(data))

\* aggregate_hr
aggregate_hr(acts) ==
    LET data == Flatten(acts)
        keys == { data[i].id : i \in 1..Len(data) }
    IN  Accumulate([k \in keys |-> [num |-> 0, den |-> 60]], data)

\* sum(a.duration.seconds for a in activities)
RECURSIVE SumSeconds(_)
SumSeconds(acts) ==
    IF acts = <<>> THEN 0 ELSE Head(acts).duration.seconds + SumSeconds(Tail(acts))

\* total_duration
total_duration(acts) == [num |-> SumSeconds(acts), den |-> 60 * 60]

Utility(name, acts, value) ==
    /\ pc = "idle"
    /\ pc' = "done"
    /\ op' = name
    /\ activities' = acts
    /\ result' = value
    /\ UNCHANGED <<call, page, idx, requests, responses, error, store>>

AggregateHr ==
    /\ pc = "idle"
    /\ \E acts \in ListsOf(ZonedActivities, MaxUtilActs) :
            Utility("aggregate_hr", acts, aggregate_hr(acts))

TotalDuration ==
    /\ pc = "idle"
    /\ \E acts \in ListsOf(TimedActivities, MaxUtilActs) :
            Utility("total_duration", acts, total_duration(acts))

(***************************************************************************)
(* The client and the utilities under any upstream                         *)
(***************************************************************************)
CallActivities ==
    /\ pc = "idle"
    /\ \E begin \in Instants, end \in Instants,
          per_page \in 1..MaxPerPage, enrich_heartrate \in BOOLEAN :
            /\ begin < end
            /\ Activities(begin, end, per_page, enrich_heartrate)

CallLastWeek ==
    /\ pc = "idle"
    /\ \E now1 \in Instants, now2 \in Instants,
          per_page \in 1..MaxPerPage, enrich_heartrate \in BOOLEAN :
            LastWeek(now1, now2, per_page, enrich_heartrate)

CallWeekBeginning == pc = "idle" /\ \E begin \in Instants : WeekBeginning(begin)

Next ==
    \/ CallActivities
    \/ CallLastWeek
    \/ CallWeekBeginning
    \/ ListAny
    \/ EnrichAny
    \/ EnrichDirect
    \/ AggregateHr
    \/ TotalDuration

Spec == Init /\ [][Next]_vars

(***************************************************************************)
(* The fetch against an upstream that holds a finite list of activities    *)
(* and serves it in consecutive pages of per_page                          *)
(***************************************************************************)
\* what the upstream may hold
Stores ==
    UNION { { [i \in 1..k |-> RawActivity(i, f[i][1], 1, 3600, f[i][2])] :
                f \in [1..k -> {"RUN", "cycling"} \X BOOLEAN] } : k \in 0..MaxActs }

\* the page the upstream serves
ServePage(held, p, per_page) ==
    LET first == (p - 1) * per_page + 1
        last  == IF p * per_page < Len(held) THEN p * per_page ELSE Len(held)
    IN  SubSeq(held, first, last)

ListServed == pc = "listing" /\ FetchPage(ServePage(store, page, call.per_page))

InitServe == Start /\ store \in Stores

NextServe ==
    \/ CallActivities
    \/ CallLastWeek
    \/ ListServed
    \/ EnrichAny

\* the program is one thread that runs on while it can: every request is answered
SpecServe == InitServe /\ [][NextServe]_vars /\ WF_vars(NextServe)

(***************************************************************************)
(* What the claims speak of                                                *)
(***************************************************************************)
Fetching == op \in {"activities", "last_week"}

\* the duration a timedelta stands for, in milliseconds (timedelta.total_seconds())
TotalMs(td) ==
    (td.days * SecondsPerDay + td.seconds) * MsPerSecond + td.microseconds \div 1000

\* the positions of the listing requests and of the zones requests
ListIdx == {i \in 1..Len(requests) : requests[i].kind = "activities"}
ZonesIdx == {i \in 1..Len(requests) : requests[i].kind = "zones"}

\* a type known to the enumeration, letter case aside
KnownType(t) == t \in {"run", "Run", "RUN", "workout", "Workout", "WORKOUT"}

\* the elements of s that satisfy the flag, in order
RECURSIVE Flagged(_)
Flagged(s) ==
    IF s = <<>> THEN <<>>
    ELSE (IF Head(s).has_heartrate THEN <<Head(s).id>> ELSE <<>>) \o Flagged(Tail(s))

\* the raw elements of the listing responses, in the order received
RECURSIVE Delivered(_)
Delivered(i) ==
    IF i = 0 THEN <<>>
    ELSE Delivered(i - 1) \o (IF i \in ListIdx THEN responses[i] ELSE <<>>)

\* the last block of a zones response tagged "heartrate" (0: none)
LastHeartrate(response) ==
    LET S == {i \in 1..Len(response) : response[i].type = "heartrate"}
    IN  IF S = {} THEN 0 ELSE CHOOSE i \in S : \A j \in S : j <= i

\* whether the returned activity is the parse of the raw element, its zones aside
ParseOf(a, raw) == [a EXCEPT !.heartrate_data = <<>>] = ActivityParse(raw)

(***************************************************************************)
(* C1                                                                      *)
(***************************************************************************)
C1_Pages ==
    Fetching =>
        \* the listing requests carry the page numbers 1, 2, ... in that order
        /\ \A i \in ListIdx :
              /\ requests[i].page = Cardinality({j \in ListIdx : j <= i})
              /\ requests[i].per_page = call.per_page
        \* a listing request follows only a page of exactly per_page elements
        /\ \A i \in ListIdx :
              (\E j \in ListIdx : j > i) => Len(responses[i]) = call.per_page
        \* the loop is left only after a short page
        /\ pc \in {"enriching", "done"} =>
              /\ ListIdx # {}
              /\ \A i \in ListIdx :
                    (\A j \in ListIdx : j <= i) => Len(responses[i]) < call.per_page
        \* the list returned holds the elements of the pages, each once
        /\ pc = "done" =>
              LET raw == Delivered(Len(requests))
              IN  /\ Len(result) = Len(raw)
                  /\ \A i \in 1..Len(raw) :
                        Cardinality({j \in 1..Len(result) : ParseOf(result[j], raw[i])}) = 1

\* in the loop, the step that follows requests the next page number
C1_Step ==
    (Fetching /\ pc = "listing") =>
        /\ Len(requests') = Len(requests) + 1
        /\ requests'[Len(requests')].kind = "activities"
        /\ requests'[Len(requests')].page = Cardinality(ListIdx) + 1

\* C1: in a fetch whose pages parse, the listing requests are those for the
\* pages 1, 2, ..., k in that order, k the first page with fewer than per_page
\* elements: a page of exactly per_page elements is followed by the request
\* for the next page, a short or empty page by no listing request, and the
\* list returned holds exactly the elements of the pages 1..k.
C1_Pagination == []C1_Pages /\ [][C1_Step]_vars

\* a fetch with per_page = 2 that returned three activities after the two
\* requests for a full and a short page
C1_Witness ==
    /\ Fetching /\ pc = "done"
    /\ call.per_page = 2
    /\ Cardinality(ListIdx) = 2
    /\ Len(responses[1]) = 2 /\ Len(responses[2]) = 1
    /\ Len(result) = 3

(***************************************************************************)
(* C2                                                                      *)
(***************************************************************************)
\* the position at which the fetch received the activity
FetchPos(a) == CHOOSE i \in 1..Len(activities) : activities[i].id = a.id

\* C2: the list a fetch returns is in ascending order of start time, and
\* activities of equal start time are in the order they were fetched in,
\* whatever the order the upstream delivered them in.
C2_Sorted ==
    (Fetching /\ pc = "done") =>
        \A i \in 1..Len(result), j \in 1..Len(result) :
            i < j =>
                /\ result[i].start_datetime <= result[j].start_datetime
                /\ result[i].start_datetime = result[j].start_datetime
                      => FetchPos(result[i]) < FetchPos(result[j])

\* a fetch returned activities delivered out of order, two of them with the
\* same start time
C2_Witness ==
    /\ Fetching /\ pc = "done"
    /\ \E i \in 1..Len(activities), j \in 1..Len(activities) :
          i < j /\ activities[i].start_datetime > activities[j].start_datetime
    /\ \E i \in 1..Len(activities), j \in 1..Len(activities) :
          i < j /\ activities[i].start_datetime = activities[j].start_datetime

(***************************************************************************)
(* C3                                                                      *)
(***************************************************************************)
\* zones is what the claim says of a response that holds a heartrate block
\* (the last one, should the response hold several)
NumberedByMin(zones, response) ==
    LastHeartrate(response) # 0 =>
        LET buckets == response[LastHeartrate(response)].distribution_buckets
        IN  /\ Len(zones) = Len(buckets)
            /\ \A i \in 1..Len(zones) : zones[i].id = "z" \o ToString(i)
            /\ \A i \in 1..Len(zones), j \in 1..Len(zones) :
                  i < j => zones[i].min <= zones[j].min
            \* and they are the buckets
            /\ \A b \in {buckets[k] : k \in 1..Len(buckets)} :
                  Cardinality({i \in 1..Len(zones) :
                                  /\ zones[i].min = IntOfHalves(b.min)
                                  /\ zones[i].max = IntOfHalves(b.max)
                                  /\ TotalMs(zones[i].time) = b.time})
                      = Cardinality({k \in 1..Len(buckets) : buckets[k] = b})

\* C3: after the enricher has run on an activity whose zones response holds
\* a heartrate block of N buckets in any order, the activity has N zones in
\* ascending order of minimum BPM, the i-th with identifier "z<i>": the
\* identifiers are z1..zN, without gap or duplicate.
C3_ZoneIds ==
    /\ (op = "enrich" /\ pc = "done") =>
          NumberedByMin(result.heartrate_data, responses[1])
    /\ (Fetching /\ pc = "done") =>
          \A i \in ZonesIdx : \A j \in 1..Len(result) :
              result[j].id = requests[i].id =>
                  NumberedByMin(result[j].heartrate_data, responses[i])

\* the enricher has run on a response whose heartrate block holds two buckets,
\* the greater minimum first
C3_Witness ==
    /\ op = "enrich" /\ pc = "done"
    /\ LastHeartrate(responses[1]) # 0
    /\ LET buckets == responses[1][LastHeartrate(responses[1])].distribution_buckets
       IN  Len(buckets) = 2 /\ buckets[1].min > buckets[2].min + 1

(***************************************************************************)
(* C8                                                                      *)
(***************************************************************************)
\* the listing responses that hold an element of unknown type
Offending ==
    {i \in ListIdx : \E k \in 1..Len(responses[i]) : ~KnownType(responses[i][k].type)}

\* C8: a fetch that receives a page with an element whose type is not run or
\* workout, letter case aside, raises the parse error at that page: it returns
\* no list, keeps no record of the page, and sends no request afterwards; a
\* page whose types are all known in some letter case does not raise, and
\* "RUN" parses to the variant run.
C8_UnknownTypeAborts ==
    Fetching =>
        /\ \A i \in Offending :
              /\ pc = "raised" /\ error = "ValueError"
              /\ result = None
              /\ i = Len(requests)
              /\ ZonesIdx = {}
              /\ Len(activities) = Len(Delivered(i - 1))
        /\ (Offending = {} /\ ZonesIdx = {}) => pc # "raised"
        /\ Offending = {} =>
              LET raw == Delivered(Len(requests))
              IN  /\ Len(activities) = Len(raw)
                  /\ \A k \in 1..Len(raw) :
                        /\ raw[k].type \in {"run", "Run", "RUN"} => activities[k].type = "run"
                        /\ raw[k].type \in {"workout", "Workout", "WORKOUT"}
                              => activities[k].type = "workout"

\* a fetch raised on an unknown type in its second page, after a first page
\* that holds "RUN"
C8_Witness ==
    /\ Fetching /\ pc = "raised" /\ error = "ValueError"
    /\ Len(requests) = 2
    /\ 2 \in Offending
    /\ \E k \in 1..Len(responses[1]) : responses[1][k].type = "RUN"

(***************************************************************************)
(* C9                                                                      *)
(***************************************************************************)
\* the ids the zones requests carry, in the order sent
RECURSIVE ZonesIds(_)
ZonesIds(i) ==
    IF i = 0 THEN <<>>
    ELSE ZonesIds(i - 1) \o (IF i \in ZonesIdx THEN <<requests[i].id>> ELSE <<>>)

IsPrefix(s, t) == Len(s) <= Len(t) /\ SubSeq(t, 1, Len(s)) = s

\* C9: a fetch with enrichment sends one zones request for each activity
\* whose flag is true, in the order fetched, and none for one whose flag is
\* false, which it returns with no zones; it never calls the enricher on an
\* activity without the flag, so the enricher's rejection is not raised; and
\* every zones request follows the last listing request.  Without enrichment
\* it sends no zones request.
C9_OneZonesRequestPerFlagged ==
    Fetching =>
        /\ IsPrefix(ZonesIds(Len(requests)), Flagged(activities))
        /\ ~call.enrich_heartrate => ZonesIdx = {}
        /\ (pc = "done" /\ call.enrich_heartrate) =>
              ZonesIds(Len(requests)) = Flagged(activities)
        /\ pc = "done" =>
              \A j \in 1..Len(result) :
                  ~result[j].has_heartrate => result[j].heartrate_data = <<>>
        /\ \A i \in ZonesIdx, j \in ListIdx : j < i
        /\ error = "ValueError" => Offending # {}

\* a fetch with enrichment returned after two zones requests, one of the
\* activities fetched being without the flag
C9_Witness ==
    /\ Fetching /\ pc = "done" /\ call.enrich_heartrate
    /\ Cardinality(ZonesIdx) = 2
    /\ \E j \in 1..Len(result) : ~result[j].has_heartrate
    /\ activities[1].has_heartrate /\ ~activities[2].has_heartrate

(***************************************************************************)
(* C10                                                                     *)
(***************************************************************************)
Ended == pc \in {"done", "raised"}

C10_Count ==
    (Fetching /\ pc \in {"enriching", "done"}) =>
        /\ Cardinality(ListIdx) = Len(store) \div call.per_page + 1
        /\ Len(store) % call.per_page = 0 => responses[Cardinality(ListIdx)] = <<>>
        /\ Delivered(Len(requests)) = store

\* C10: against an upstream that holds N activities and serves them in
\* consecutive pages of per_page, the fetch ends, and its loop, when the
\* records parse, is left after exactly N div per_page + 1 listing requests
\* that delivered the N activities; when per_page divides N (N = 0 too) the
\* last of them is answered by an empty page.
C10_Terminates == <>Ended /\ []C10_Count

\* a fetch of two activities with per_page = 2 returned after two listing
\* requests, the second answered by an empty page
C10_Witness ==
    /\ Fetching /\ pc = "done"
    /\ Len(store) = 2 /\ call.per_page = 2
    /\ Cardinality(ListIdx) = 2
    /\ responses[2] = <<>>

(***************************************************************************)
(* C4, C5                                                                  *)
(***************************************************************************)
\* the zone records handed to aggregate_hr
ZoneRecords == Flatten(activities)

\* whole seconds of time-in-zone of the records with identifier k
RECURSIVE SumWholeSeconds(_, _)
SumWholeSeconds(data, k) ==
    IF data = <<>> THEN 0
    ELSE (IF Head(data).id = k THEN TotalMs(Head(data).time) \div 1000 ELSE 0)
             + SumWholeSeconds(Tail(data), k)

\* whole seconds of time-in-zone, whole days left out, of the records with
\* identifier k
RECURSIVE SumSecondsOfDay(_, _)
SumSecondsOfDay(data, k) ==
    IF data = <<>> THEN 0
    ELSE (IF Head(data).id = k
             THEN (TotalMs(Head(data).time) \div 1000) % (24 * 60 * 60) ELSE 0)
             + SumSecondsOfDay(Tail(data), k)

\* C4, as claimed: aggregate_hr returns a mapping whose keys are the zone
\* identifiers that occur in the activities' zone lists (none: the empty
\* mapping) and whose value for an identifier is the sum of the time-in-zone
\* in seconds of the records with that identifier, divided by 60.
C4_SumOfMinutes ==
    (op = "aggregate_hr" /\ pc = "done") =>
        /\ DOMAIN result = {ZoneRecords[i].id : i \in 1..Len(ZoneRecords)}
        /\ \A k \in DOMAIN result :
              /\ result[k].den = 60
              /\ result[k].num = SumWholeSeconds(ZoneRecords, k)

\* C5, as claimed: the total of a zone all of whose records are of 60
\* seconds or more is less than the records' total seconds divided by 60.
C5_Undercount ==
    (op = "aggregate_hr" /\ pc = "done") =>
        \A k \in DOMAIN result :
            (\A i \in 1..Len(ZoneRecords) :
                ZoneRecords[i].id = k => TotalMs(ZoneRecords[i].time) >= 60 * 1000)
            => /\ result[k].den = 60
               /\ result[k].num < SumWholeSeconds(ZoneRecords, k)

\* C5, amended: a record's contribution is the seconds field of its
\* time-in-zone (the whole seconds less the whole days) divided by 60: the
\* total of a zone is the sum of these, which is the total whole seconds
\* divided by 60 when every record is of less than a day, and less than that
\* when one is of a day or more.
C5_SecondsOfDay ==
    (op = "aggregate_hr" /\ pc = "done") =>
        \A k \in DOMAIN result :
            /\ result[k].den = 60
            /\ result[k].num = SumSecondsOfDay(ZoneRecords, k)
            /\ (\A i \in 1..Len(ZoneRecords) :
                   ZoneRecords[i].id = k => ZoneRecords[i].time.days = 0)
                  <=> result[k].num = SumWholeSeconds(ZoneRecords, k)
            /\ result[k].num <= SumWholeSeconds(ZoneRecords, k)

\* aggregate_hr has summed a zone of one record of ten minutes and a zone
\* with a record of more than a day
C5_Witness ==
    /\ op = "aggregate_hr" /\ pc = "done"
    /\ \E k \in DOMAIN result :
          /\ result[k].num = 600
          /\ SumWholeSeconds(ZoneRecords, k) = 600
    /\ \E i \in 1..Len(ZoneRecords) : ZoneRecords[i].time.days > 0

(***************************************************************************)
(* C7                                                                      *)
(***************************************************************************)
RECURSIVE SumDurations(_)
SumDurations(acts) ==
    IF acts = <<>> THEN 0
    ELSE TotalMs(Head(acts).duration) \div 1000 + SumDurations(Tail(acts))

\* C7, as claimed: total_duration returns the sum of the activities' full
\* durations in whole seconds, divided by 3600, also when a duration is of
\* 24 hours or more, and 0 for the empty list.
C7_SumOfHours ==
    (op = "total_duration" /\ pc = "done") =>
        /\ result.den = 3600
        /\ result.num = SumDurations(activities)

(***************************************************************************)
(* C6                                                                      *)
(***************************************************************************)
\* C6, as claimed: week_beginning(T) goes on as activities(T, T + 7 days):
\* it sends listing requests, each with after = T and before = T + 7 days.
C6_WeekBeginning ==
    (op = "week_beginning" /\ pc # "idle") =>
        /\ error = None
        /\ ListIdx # {}
        /\ \A i \in ListIdx :
              requests[i].after = call.begin /\ requests[i].before = call.begin + Week

====
